---- MODULE Spec2Model ----
(***************************************************************************)
(* EnergyFlask (app.py): a Flask service with two handlers over one table. *)
(*   POST /api/measurements  receive_data(): validate a JSON body and      *)
(*                           insert one Medicion row                       *)
(*   GET  /                  dashboard(): read the row with the greatest   *)
(*                           timestamp and render six formatted cards      *)
(*                                                                         *)
(* Each handler makes one database round trip inside one transaction, and  *)
(* keeps no state between requests (the scoped session is discarded when   *)
(* the request ends), so a handler is one atomic step over the table and   *)
(* concurrent requests are the interleavings of these steps.               *)
(*                                                                         *)
(* Floats are fixed-point integers with ValueDigits decimals; datetimes    *)
(* are ticks, TicksPerSec ticks to the second.  The store is PostgreSQL    *)
(* (the URL scheme of lines 10-21): NOT NULL columns reject a null, and an *)
(* unreachable store fails every statement.                                *)
(***************************************************************************)
EXTENDS Integers, Sequences, FiniteSets

VARIABLES
    rows,   \* table 'mediciones', in insertion order
    last    \* the request handled last and the response it got

vars == <<rows, last>>

-----------------------------------------------------------------------------
(* Bounds of the model *)

MaxRows == 2        \* rows the table may hold
MaxTime == 2        \* datetime.now() returns a tick in 0..MaxTime
TicksPerSec == 2    \* sub-second resolution of a datetime
ValueDigits == 3    \* decimals kept by the model's fixed-point floats

(* Decimal places of the six cards, dashboard() lines 186-191 *)
VoltagePlaces == 2
CurrentPlaces == 3
PowerPlaces == 1
EnergyPlaces == 3
FrequencyPlaces == 1
PfPlaces == 2

-----------------------------------------------------------------------------
(* JSON values and request bodies *)

required_fields == {"voltage", "current", "power", "energy", "frequency", "pf"}

JNum(n) == [kind |-> "num", n |-> n]
JNull == [kind |-> "null", n |-> 0]

NoObj == [f \in {} |-> JNull]

\* request.get_json() yields a dict, None, a number, a list or a str; or it
\* raises BadRequest on a body that is not JSON ("malformed").  A list is
\* modelled by the strings it holds, a str by the field names it contains
\* as substrings: all that `field in data` can observe.
ObjectBody(o) == [kind |-> "object", obj |-> o, names |-> {}]
NullBody == [kind |-> "null", obj |-> NoObj, names |-> {}]
NumberBody == [kind |-> "number", obj |-> NoObj, names |-> {}]
ListBody(s) == [kind |-> "list", obj |-> NoObj, names |-> s]
StringBody(s) == [kind |-> "string", obj |-> NoObj, names |-> s]
MalformedBody == [kind |-> "malformed", obj |-> NoObj, names |-> {}]
NoBody == [kind |-> "none", obj |-> NoObj, names |-> {}]

\* Two sensor readings, in units of 10^-ValueDigits.
ReadingA ==
    [voltage |-> 220500, current |-> 1234, power |-> 272300,
     energy |-> 512, frequency |-> 60000, pf |-> 980]
ReadingB ==
    [voltage |-> 231046, current |-> 2005, power |-> 463270,
     energy |-> 513, frequency |-> 59960, pf |-> 875]
Readings == {ReadingA, ReadingB}

Full(r) == [f \in required_fields |-> JNum(r[f])]
Without(r, g) == [f \in required_fields \ {g} |-> JNum(r[f])]
WithNull(r, g) == [f \in required_fields |-> IF f = g THEN JNull ELSE JNum(r[f])]

Objects ==
    {Full(r) : r \in Readings}
        \cup {Without(r, g) : r \in Readings, g \in required_fields}
        \cup {WithNull(r, g) : r \in Readings, g \in required_fields}
        \cup {NoObj}

Bodies ==
    {ObjectBody(o) : o \in Objects}
        \cup {NullBody, NumberBody, MalformedBody,
              ListBody({}), ListBody(required_fields),
              StringBody({}), StringBody(required_fields)}

ContentTypes == {"json", "other"}

-----------------------------------------------------------------------------
(* Messages *)

MsgContentType == "Content-Type must be application/json"
MsgMissing == "Faltan campos requeridos en el JSON."
MsgSaved == "Datos guardados"
MsgSaveError == "Error interno del servidor al guardar"
MsgNoData == "No hay datos aún"
MsgQueryError == "Error de conexión a la base de datos"
MsgInitial == "N/A"

-----------------------------------------------------------------------------
(* receive_data *)

\* Variant: the content type is never looked at.
IsJsonAlways(ctype) == TRUE

\* request.is_json, line 64
IsJson(ctype) == ctype = "json"

\* `field in data`, line 70: membership in a dict's keys, a list's items or a
\* str's substrings; None and numbers are not iterable (TypeError).
FieldIn(field, data) ==
    CASE data.kind = "object" -> field \in DOMAIN data.obj
      [] data.kind \in {"list", "string"} -> field \in data.names
      [] OTHER -> FALSE

Iterable(data) == data.kind \in {"object", "list", "string"}

\* all(field in data for field in required_fields), line 70
HasAllFields(data) == \A field \in required_fields : FieldIn(field, data)

\* data['voltage'] ... data['pf'], lines 75-82: only a dict can be indexed
\* by a str (a list or a str raises TypeError inside the try).
Subscriptable(data) == data.kind = "object"

Medicion(data) == [f \in required_fields |-> data.obj[f]]

\* Column constraints, lines 37-42: Float, nullable=False
StoreAccepts(m, reachable) ==
    reachable /\ \A f \in required_fields : m[f].kind = "num"

\* Variant: every insert is given the same id.
IdReused(rs) == 1

\* id = db.Column(db.Integer, primary_key=True), line 35: the next serial
NextId(rs) == Len(rs) + 1

\* A row of the table: the six columns hold what the INSERT was given.
Row(m, id, now) ==
    [id |-> id, timestamp |-> now,
     voltage |-> m["voltage"], current |-> m["current"],
     power |-> m["power"], energy |-> m["energy"],
     frequency |-> m["frequency"], pf |-> m["pf"]]

SameReading(r, s) == \A f \in required_fields : r[f] = s[f]

\* Variant: a reading equal to a stored one is not inserted again.
CommitUnique(rs, m, now) ==
    IF \E i \in 1..Len(rs) : SameReading(rs[i], Row(m, 0, now))
    THEN rs
    ELSE Append(rs, Row(m, NextId(rs), now))

\* db.session.add + db.session.commit, lines 85-86, on a store that accepts
Commit(rs, m, now) == Append(rs, Row(m, NextId(rs), now))

\* db.session.rollback(), line 92: the table as it was before the request
Rollback(rs) == rs

Response(status, structured, message, attempted, rs) ==
    [status |-> status, structured |-> structured, message |-> message,
     attempted |-> attempted, rows |-> rs]

\* Variant: the response carries the exception's text.
SaveFailedLeaky(rs, attempted, detail) ==
    Response(500, TRUE, detail, attempted, Rollback(rs))

\* except Exception, lines 91-94
SaveFailed(rs, attempted, detail) ==
    Response(500, TRUE, MsgSaveError, attempted, Rollback(rs))

\* The whole handler, lines 60-94.  A response that is not structured is
\* the framework's own page for an exception that left the handler.
receive_data(rs, ctype, data, reachable, now) ==
    IF ~IsJson(ctype)
    THEN Response(400, TRUE, MsgContentType, FALSE, rs)
    ELSE IF data.kind = "malformed"
    THEN Response(400, FALSE, "BadRequest", FALSE, rs)
    ELSE IF ~Iterable(data)
    THEN Response(500, FALSE, "TypeError", FALSE, rs)
    ELSE IF ~HasAllFields(data)
    THEN Response(400, TRUE, MsgMissing, FALSE, rs)
    ELSE IF ~Subscriptable(data)
    THEN SaveFailed(rs, FALSE, "TypeError")
    ELSE IF ~StoreAccepts(Medicion(data), reachable)
    THEN SaveFailed(rs, TRUE,
                    IF reachable THEN "IntegrityError" ELSE "OperationalError")
    ELSE Response(201, TRUE, MsgSaved, TRUE, Commit(rs, Medicion(data), now))

-----------------------------------------------------------------------------
(* dashboard *)

RECURSIVE Pow10(_)
Pow10(k) == IF k = 0 THEN 1 ELSE 10 * Pow10(k - 1)

\* f"{v:.<places>f}", lines 186-191: the decimal with `places` digits that
\* is nearest to v, ties to even; the result is its digits as an integer.
Format(v, places) ==
    LET d == Pow10(ValueDigits - places)
        q == v \div d
        r == v % d
    IN  IF 2 * r > d \/ (2 * r = d /\ q % 2 = 1) THEN q + 1 ELSE q

\* timestamp.strftime("%Y-%m-%d %H:%M:%S"), line 164: whole seconds
Strftime(ts) == ts \div TicksPerSec

Stamp(ts) == [text |-> "timestamp", secs |-> Strftime(ts)]
Text(msg) == [text |-> msg, secs |-> 0]

Range(s) == {s[i] : i \in 1..Len(s)}

\* Variant: the row inserted last (ORDER BY id DESC).
LatestById(rs) == {rs[Len(rs)]}

\* order_by(Medicion.timestamp.desc()).limit(1), lines 150-152: the rows one
\* of which the query returns

Latest(rs) ==
    {r \in Range(rs) : \A s \in Range(rs) : s.timestamp <= r.timestamp}

ZeroData == [f \in required_fields |-> 0]

\* latest_record found, lines 154-164
Found(r) ==
    [status |-> 200, data |-> [f \in required_fields |-> r[f].n],
     last_update |-> Stamp(r.timestamp)]

\* Variant: last_update keeps its initial value of line 145.
NoRecordUnset == [status |-> 200, data |-> ZeroData, last_update |-> Text(MsgInitial)]

\* no record, lines 166-172
NoRecord == [status |-> 200, data |-> ZeroData, last_update |-> Text(MsgNoData)]

\* Variant: the query's exception leaves the handler.
QueryFailedRaises == [status |-> 500, data |-> ZeroData, last_update |-> Text(MsgInitial)]

\* except Exception, lines 174-181
QueryFailed == [status |-> 200, data |-> ZeroData, last_update |-> Text(MsgQueryError)]

\* the six cards, lines 185-192
Cards(data) ==
    [voltage |-> Format(data["voltage"], VoltagePlaces),
     current |-> Format(data["current"], CurrentPlaces),
     power |-> Format(data["power"], PowerPlaces),
     energy |-> Format(data["energy"], EnergyPlaces),
     frequency |-> Format(data["frequency"], FrequencyPlaces),
     pf |-> Format(data["pf"], PfPlaces)]

NoCards == [f \in required_fields |-> -1]

-----------------------------------------------------------------------------
(* The state machine *)

Init ==
    /\ rows = <<>>
    /\ last = [op |-> "none", ctype |-> "none", body |-> NoBody,
               reachable |-> TRUE, status |-> 0, structured |-> FALSE,
               message |-> "", attempted |-> FALSE,
               cards |-> NoCards, last_update |-> Text("")]

ReceiveData ==
    /\ Len(rows) < MaxRows
    /\ \E ctype \in ContentTypes, data \in Bodies,
          reachable \in BOOLEAN, now \in 0..MaxTime :
          LET resp == receive_data(rows, ctype, data, reachable, now)
          IN  /\ rows' = resp.rows
              /\ last' = [op |-> "receive_data", ctype |-> ctype, body |-> data,
                          reachable |-> reachable, status |-> resp.status,
                          structured |-> resp.structured,
                          message |-> resp.message,
                          attempted |-> resp.attempted,
                          cards |-> NoCards, last_update |-> Text("")]

Rendered(page, reachable) ==
    [op |-> "dashboard", ctype |-> "none", body |-> NoBody,
     reachable |-> reachable, status |-> page.status, structured |-> FALSE,
     message |-> "", attempted |-> FALSE,
     cards |-> Cards(page.data), last_update |-> page.last_update]

Dashboard ==
    /\ \E reachable \in BOOLEAN :
          IF ~reachable
          THEN last' = Rendered(QueryFailed, reachable)
          ELSE IF rows = <<>>
          THEN last' = Rendered(NoRecord, reachable)
          ELSE \E r \in Latest(rows) : last' = Rendered(Found(r), reachable)
    /\ UNCHANGED rows

Next == ReceiveData \/ Dashboard

Spec == Init /\ [][Next]_vars

-----------------------------------------------------------------------------
(* Vocabulary of the properties *)

IsIngest(l) == l.op = "receive_data"
IsDashboard(l) == l.op = "dashboard"

\* the body is a JSON object that holds key f
HasKey(body, f) == body.kind = "object" /\ f \in DOMAIN body.obj

\* the body is a JSON object with a number under each of the six keys
SixNumeric(body) ==
    \A f \in required_fields : HasKey(body, f) /\ body.obj[f].kind = "num"

\* the body is a JSON object with a required key present whose value is null
NullUnderKey(body) ==
    \E f \in required_fields : HasKey(body, f) /\ body.obj[f].kind = "null"

\* the insert reached the store and the store refused it or was unreachable
WriteFailed(l) == l.attempted /\ (~l.reachable \/ NullUnderKey(l.body))

Extends(new, old) ==
    /\ Len(new) >= Len(old)
    /\ \A i \in 1..Len(old) : new[i] = old[i]

UniqueIds(rs) ==
    \A i \in 1..Len(rs) : \A j \in 1..Len(rs) : rs[i].id = rs[j].id => i = j

\* the page shows row r: its six values at the cards' precision and its
\* timestamp to the second
Shows(l, r) ==
    /\ l.cards = Cards([f \in required_fields |-> r[f].n])
    /\ l.last_update = Stamp(r.timestamp)

ShowsZeros(l) == \A f \in required_fields : l.cards[f] = 0

HasMaxTimestamp(r, rs) == \A i \in 1..Len(rs) : rs[i].timestamp <= r.timestamp

-----------------------------------------------------------------------------
(* Properties *)

\* C1 (as stated): every POST with a JSON content type and a body holding the
\* six required numeric fields is answered 201 and adds exactly one row.
C1_ValidAlwaysCreated ==
    [][(IsIngest(last') /\ last'.ctype = "json" /\ SixNumeric(last'.body))
         => (last'.status = 201 /\ Len(rows') = Len(rows) + 1)]_vars

\* C1 (amended): such a POST is answered 201 and appends exactly one row,
\* holding the six submitted values, whenever the store performs the write;
\* a payload equal to a stored one is appended again.
C1_ValidCreatedWhenStoreUp ==
    [][(IsIngest(last') /\ last'.ctype = "json" /\ SixNumeric(last'.body)
            /\ last'.reachable)
         => /\ last'.status = 201
            /\ Len(rows') = Len(rows) + 1
            /\ Extends(rows', rows)
            /\ \A f \in required_fields :
                   rows'[Len(rows')][f] = last'.body.obj[f]]_vars

\* C1 witness: a second submission of a stored payload was answered 201 and
\* the table holds the reading twice.
C1_Witness ==
    /\ IsIngest(last) /\ last.status = 201 /\ last.reachable
    /\ SixNumeric(last.body)
    /\ Len(rows) >= 2
    /\ SameReading(rows[Len(rows) - 1], rows[Len(rows)])

\* C2 (as stated): every POST with a JSON content type whose body lacks one of
\* the six required keys is answered 400 and leaves the rows unchanged.
C2_MissingKeyRejected ==
    [][(IsIngest(last') /\ last'.ctype = "json"
            /\ \E f \in required_fields : ~HasKey(last'.body, f))
         => (last'.status = 400 /\ rows' = rows)]_vars

\* C3: every POST whose content type is not JSON is answered 400 with the
\* content-type message, whatever the body, and leaves the rows unchanged.
C3_NonJsonRejected ==
    [][(IsIngest(last') /\ last'.ctype # "json")
         => /\ last'.status = 400
            /\ last'.structured
            /\ last'.message = MsgContentType
            /\ ~last'.attempted
            /\ rows' = rows]_vars

\* C3 witness: a non-JSON POST whose body holds all six numeric fields was
\* answered 400.
C3_Witness ==
    /\ IsIngest(last) /\ last.ctype = "other"
    /\ SixNumeric(last.body) /\ last.reachable
    /\ last.status = 400

\* C4: a write the store refuses or cannot perform adds no row and is
\* answered 500 with the fixed message; every ingest not answered 201 leaves
\* the rows unchanged.
C4_FailedWriteRolledBack ==
    [][IsIngest(last')
         => /\ last'.status # 201 => rows' = rows
            /\ WriteFailed(last')
                 => /\ last'.status = 500
                    /\ last'.structured
                    /\ last'.message = MsgSaveError
                    /\ rows' = rows]_vars

\* C4 witness: an insert with a null value reached a reachable, non-empty
\* store, was refused and answered 500.
C4_Witness ==
    /\ IsIngest(last) /\ last.attempted /\ last.reachable
    /\ NullUnderKey(last.body)
    /\ last.status = 500
    /\ Len(rows) >= 1

\* C5 (as stated): every POST ends in a structured {status, message}
\* response with status 201, 400 or 500; no exception leaves receive_data.
C5_AlwaysStructured ==
    IsIngest(last) => (last.structured /\ last.status \in {201, 400, 500})

\* C6 (as stated): on a non-empty store GET / shows the values and timestamp
\* of a stored row whose timestamp is the maximum.
C6_ShowsLatest ==
    (IsDashboard(last) /\ rows # <<>>)
        => \E i \in 1..Len(rows) :
               HasMaxTimestamp(rows[i], rows) /\ Shows(last, rows[i])

\* C6 (amended): the same, whenever the latest-row query succeeds.
C6_ShowsLatestWhenQueried ==
    (IsDashboard(last) /\ rows # <<>> /\ last.reachable)
        => /\ last.status = 200
           /\ \E i \in 1..Len(rows) :
                  HasMaxTimestamp(rows[i], rows) /\ Shows(last, rows[i])

\* C6 witness: the row inserted first has the later timestamp and another
\* reading than the row inserted second, and the page shows the first.
C6_Witness ==
    /\ IsDashboard(last) /\ last.reachable
    /\ Len(rows) >= 2
    /\ rows[1].timestamp > rows[2].timestamp
    /\ ~SameReading(rows[1], rows[2])
    /\ \A i \in 1..Len(rows) : i # 1 => rows[i].timestamp < rows[1].timestamp
    /\ Shows(last, rows[1])

\* C7: on a reachable, empty store GET / answers 200 with six zeros and the
\* "no data yet" indicator.
C7_EmptyStorePlaceholder ==
    (IsDashboard(last) /\ last.reachable /\ rows = <<>>)
        => /\ last.status = 200
           /\ ShowsZeros(last)
           /\ last.last_update = Text(MsgNoData)

\* C7 witness: GET / was served from a reachable, empty store.
C7_Witness ==
    /\ IsDashboard(last) /\ last.reachable /\ rows = <<>>
    /\ last.last_update.text = MsgNoData

\* C8: GET / always answers 200; when the query fails the page shows six
\* zeros and the connection-error message.
C8_QueryFailureAbsorbed ==
    IsDashboard(last)
        => /\ last.status = 200
           /\ ~last.reachable
                => (ShowsZeros(last) /\ last.last_update = Text(MsgQueryError))

\* C8 witness: GET / was served while a non-empty store was unreachable.
C8_Witness ==
    /\ IsDashboard(last) /\ ~last.reachable /\ rows # <<>>
    /\ last.status = 200

\* C9: stored rows stay as they are, ids are unique, rows appear only with
\* an ingest answered 201, and GET / leaves the rows unchanged.
C9_AppendOnly ==
    [][/\ Extends(rows', rows)
       /\ UniqueIds(rows')
       /\ rows' # rows => (IsIngest(last') /\ last'.status = 201
                             /\ Len(rows') = Len(rows) + 1)
       /\ IsDashboard(last') => rows' = rows]_vars

\* C9 witness: GET / was served after two ingests and both rows are stored
\* under different ids.
C9_Witness ==
    /\ IsDashboard(last)
    /\ Len(rows) >= 2
    /\ rows[1].id # rows[2].id

\* C10 (as stated): every stored row has its six fields populated, and a
\* payload with a null under a required key is rejected by validation before
\* any insert is attempted.
C10_NullRejectedByValidation ==
    /\ \A i \in 1..Len(rows) : \A f \in required_fields : rows[i][f].kind = "num"
    /\ (IsIngest(last) /\ last.ctype = "json" /\ NullUnderKey(last.body))
          => (last.status = 400 /\ ~last.attempted)

====
